---- MODULE Spec2Model ----
(***************************************************************************)
(* Model of the student-intro program (src/src/processor.rs, state.rs,     *)
(* error.rs): the four instruction handlers, the account data layouts they *)
(* read and write, and the system-program / token-program calls they make. *)
(*                                                                         *)
(* An account address is a tuple: <<"key", n>> for a keypair or a program  *)
(* id, <<"pda", program, seeds>> for a program-derived address.  The       *)
(* ledger is the function `accounts` from the addresses that exist to      *)
(* [owner, data]; an address outside its domain is an empty account owned  *)
(* by the system program.  A payload string is a record [text, len] (len   *)
(* is its length in bytes); token amounts are counted in units of          *)
(* LAMPORTS_PER_SOL base units, that is in whole tokens of a 9-decimal     *)
(* mint.  Account metas are passed writable; the fee payer is funded.      *)
(* A u64 is the tuple of its four 16-bit limbs, least significant first,   *)
(* or, when it is read from the bytes of a hashed address, those bytes     *)
(* plus an offset.                                                         *)
(* overflow_checks is the build profile of the deployed program: with it   *)
(* an integer overflow panics, without it the addition wraps.              *)
(* mint_auth_head is what the deployment's program id makes of the first   *)
(* two bytes of the mint authority address (the source fixes no program    *)
(* id): a character followed by 0, a character followed by 1, or other     *)
(* bytes.                                                                  *)
(***************************************************************************)
EXTENDS Integers, Sequences, FiniteSets, TLC

VARIABLES accounts, last, replyLog, overflow_checks, mint_auth_head

vars == <<accounts, last, replyLog, overflow_checks, mint_auth_head>>

(* ---------------------------------------------------------------------- *)
(* Bounds                                                                 *)
(* ---------------------------------------------------------------------- *)
MaxReplies == 2

(* ---------------------------------------------------------------------- *)
(* Keys and derived addresses                                             *)
(* ---------------------------------------------------------------------- *)
Key(n) == <<"key", n>>

Identities == {Key("A"), Key("B")}

program_id == Key("student_intro_program")

SYSTEM_PROGRAM_ID == Key("system_program")

TOKEN_PROGRAM_ID == Key("token_program")

RENT_PROGRAM_ID == Key("sysvar_rent")

ASSOCIATED_TOKEN_PROGRAM_ID == Key("associated_token_program")

(* 32 zero bytes: Pubkey::default(), which is the system program id.      *)
ZeroKey == SYSTEM_PROGRAM_ID

(* The position of an account the instruction's list does not reach.      *)
NoKey == <<"none">>

Wrong == Key("wrong")

StrSeed(s) == <<"str", s>>

to_be_bytes(n) == <<"u64be", n>>

find_program_address(seeds, pid) == <<"pda", pid, seeds>>

get_associated_token_address(wallet, mint) ==
    find_program_address(<<wallet, TOKEN_PROGRAM_ID, mint>>, ASSOCIATED_TOKEN_PROGRAM_ID)

IntroPda(writer) == find_program_address(<<writer, StrSeed("intro")>>, program_id)

CounterPda(pda) == find_program_address(<<pda, StrSeed("counter")>>, program_id)

ReplyPda(intro, counter) == find_program_address(<<intro, to_be_bytes(counter)>>, program_id)

MintPda == find_program_address(<<StrSeed("token_mint")>>, program_id)

MintAuthPda == find_program_address(<<StrSeed("token_auth")>>, program_id)

(* ---------------------------------------------------------------------- *)
(* u64 (ReplyCount::counter, state.rs 30)                                 *)
(* ---------------------------------------------------------------------- *)
LIMB == 65536

U64(n) == <<n % LIMB, (n \div LIMB) % LIMB, 0, 0>>

U64_MAX == <<LIMB - 1, LIMB - 1, LIMB - 1, LIMB - 1>>

(* The first eight bytes of a key read as a little-endian u64.  The keys  *)
(* given byte by byte have their number: the zero key 0, Key("F") (first   *)
(* eight bytes FF) 2^64 - 1, Key("G") (18 00 00 00 'AAAA') the limbs       *)
(* 0x0018, 0, 0x4141, 0x4141.  Any other key is a public key or a hash;    *)
(* its eight bytes are the word <<"word", k, 0>>, and <<"word", k, d>> is  *)
(* that number plus d: words of different keys differ, and no word is      *)
(* within reach of 0, of 2^64 - 1 or of another key's word.                *)
(* BytesFrom(k, i) stands for the bytes of k from offset i on.             *)
BytesFrom(k, i) == <<"from", k, i>>

Word(k, d) == <<"word", k, d>>

IsWord(x) == Len(x) = 3

(* wrapping addition and subtraction of 1 *)
U64Inc(x) ==
    IF IsWord(x) THEN Word(x[2], x[3] + 1)
    ELSE IF x[1] < LIMB - 1 THEN <<x[1] + 1, x[2], x[3], x[4]>>
    ELSE IF x[2] < LIMB - 1 THEN <<0, x[2] + 1, x[3], x[4]>>
    ELSE IF x[3] < LIMB - 1 THEN <<0, 0, x[3] + 1, x[4]>>
    ELSE IF x[4] < LIMB - 1 THEN <<0, 0, 0, x[4] + 1>>
    ELSE <<0, 0, 0, 0>>

U64Dec(x) ==
    IF IsWord(x) THEN Word(x[2], x[3] - 1)
    ELSE IF x[1] > 0 THEN <<x[1] - 1, x[2], x[3], x[4]>>
    ELSE IF x[2] > 0 THEN <<LIMB - 1, x[2] - 1, x[3], x[4]>>
    ELSE IF x[3] > 0 THEN <<LIMB - 1, LIMB - 1, x[3] - 1, x[4]>>
    ELSE IF x[4] > 0 THEN <<LIMB - 1, LIMB - 1, LIMB - 1, x[4] - 1>>
    ELSE U64_MAX

(* <<"lo", k, v>> is key k with its first eight bytes replaced by v.       *)
KeyLo(k) ==
    IF k[1] = "lo" THEN k[3]
    ELSE IF k = ZeroKey THEN U64(0)
    ELSE IF k = Key("F") THEN U64_MAX
    ELSE IF k = Key("G") THEN <<24, 0, 16705, 16705>>
    ELSE Word(k, 0)

KeyRest(k) == IF k[1] = "lo" THEN k[2] ELSE k

WithKeyLo(k, v) ==
    IF v = KeyLo(KeyRest(k)) THEN KeyRest(k) ELSE <<"lo", KeyRest(k), v>>

(* ---------------------------------------------------------------------- *)
(* Strings and account data layouts (state.rs)                            *)
(* ---------------------------------------------------------------------- *)
Str(text, len) == [text |-> text, len |-> len]

EmptyStr == Str("", 0)

(* The 32 bytes of a key read as two borsh strings (u32 length, bytes,     *)
(* u32 length, bytes).  Key("G") is the key 18 00 00 00, 24 x 'A',         *)
(* 00 00 00 00: a 24-byte string and an empty one; the zero key is two     *)
(* empty strings.  In a public key or a hash the first four bytes are a    *)
(* length far beyond any account, and so they are in Key("F").             *)
KeyAsStrings(k) ==
    CASE k = Key("G") ->
           [ok |-> TRUE, name |-> Str("AAAAAAAAAAAAAAAAAAAAAAAA", 24), message |-> EmptyStr]
      [] k = ZeroKey -> [ok |-> TRUE, name |-> EmptyStr, message |-> EmptyStr]
      [] k # Key("G") /\ k # ZeroKey /\ k[1] \in {"key", "pda"} -> [ok |-> FALSE]

INTRO_DISCRIMINATOR == "intro"

REPLY_DISCRIMINATOR == "reply"

COUNT_DISCRIMINATOR == "counter"

IntroAccountSize(name, message) ==
    (4 + Len(INTRO_DISCRIMINATOR)) + 1 + 32 + (4 + name.len) + (4 + message.len)

ReplyAccountSize(name, message) ==
    (4 + Len(REPLY_DISCRIMINATOR)) + 1 + 32 + 32 + (4 + name.len) + (4 + message.len)

REPLY_COUNT_SIZE == (4 + Len(COUNT_DISCRIMINATOR)) + 1 + 8

ACCOUNT_LEN == 1000

MINT_LEN == 82

MINT_DECIMALS == 9

(* Amounts minted, in whole tokens (multiples of LAMPORTS_PER_SOL base      *)
(* units of the 9-decimal mint).                                           *)
INTRO_REWARD == 10

REPLY_REWARD == 5

NoData == [layout |-> "none", size |-> 0]

Zeroed(size) == [layout |-> "zero", size |-> size]

StudentIntroState(size, discriminator, is_initialized, writer, name, message) ==
    [layout |-> "intro", size |-> size, discriminator |-> discriminator,
     is_initialized |-> is_initialized, writer |-> writer,
     name |-> name, message |-> message]

StudentReplyState(size, discriminator, is_initialized, intro, replier, name, message) ==
    [layout |-> "reply", size |-> size, discriminator |-> discriminator,
     is_initialized |-> is_initialized, intro |-> intro, replier |-> replier,
     name |-> name, message |-> message]

ReplyCount(size, discriminator, is_initialized, counter) ==
    [layout |-> "count", size |-> size, discriminator |-> discriminator,
     is_initialized |-> is_initialized, counter |-> counter]

MintData(is_initialized, mint_authority, supply, decimals) ==
    [layout |-> "mint", size |-> MINT_LEN, is_initialized |-> is_initialized,
     mint_authority |-> mint_authority, supply |-> supply, decimals |-> decimals]

TokenAccountData(mint, owner, amount) ==
    [layout |-> "token", size |-> 165, mint |-> mint, owner |-> owner, amount |-> amount]

Account(owner, data) == [owner |-> owner, data |-> data]

AccountOf(acc, k) ==
    IF k \in DOMAIN acc THEN acc[k] ELSE Account(SYSTEM_PROGRAM_ID, NoData)

SetAccount(acc, k, a) == [x \in (DOMAIN acc) \cup {k} |-> IF x = k THEN a ELSE acc[x]]

Result(err, acc) == [err |-> err, accounts |-> acc]

(* ---------------------------------------------------------------------- *)
(* borsh: try_from_slice_unchecked and serialize over the data layouts    *)
(* ---------------------------------------------------------------------- *)
(* A layout says what the leading bytes of the account hold.  Behind a    *)
(* "count" record and in a "zero" account every byte is zero; the bytes    *)
(* behind an "intro" or a "reply" record are not tracked.  All three       *)
(* program layouts start with the discriminator string and the             *)
(* is_initialized byte; try_from_slice_unchecked ignores trailing bytes,   *)
(* so a ReplyCount read from an intro or reply record takes the first      *)
(* eight bytes of the key that follows as its counter.  A failed read is   *)
(* ok = FALSE (the handlers unwrap it).  Each reader is defined on the     *)
(* layouts whose bytes the model determines.                               *)
Failed == [ok |-> FALSE]

MintAuthHeads == {"other", "char_false", "char_true"}

(* An initialized mint starts with the tag 01 00 00 00 of its authority    *)
(* option and the 32 bytes of the authority: read as a ReplyCount that is  *)
(* a one-byte discriminator (byte 0 of the authority, which has to be a    *)
(* character), the is_initialized byte (byte 1, which has to be 0 or 1)    *)
(* and bytes 2 to 9 as the counter.                                        *)
try_ReplyCount(data) ==
    CASE data.layout = "count" ->
           [ok |-> TRUE, discriminator |-> data.discriminator,
            is_initialized |-> data.is_initialized, counter |-> data.counter]
      [] data.layout = "intro" ->
           [ok |-> TRUE, discriminator |-> data.discriminator,
            is_initialized |-> data.is_initialized, counter |-> KeyLo(data.writer)]
      [] data.layout = "reply" ->
           [ok |-> TRUE, discriminator |-> data.discriminator,
            is_initialized |-> data.is_initialized, counter |-> KeyLo(data.intro)]
      [] data.layout = "zero" ->
           IF data.size >= 4 + 1 + 8
           THEN [ok |-> TRUE, discriminator |-> "", is_initialized |-> FALSE,
                 counter |-> U64(0)]
           ELSE Failed
      [] data.layout = "mint" /\ data.is_initialized /\ data.mint_authority = MintAuthPda ->
           IF mint_auth_head = "other" THEN Failed
           ELSE [ok |-> TRUE, discriminator |-> "?",
                 is_initialized |-> (mint_auth_head = "char_true"),
                 counter |-> Word(BytesFrom(MintAuthPda, 2), 0)]
      [] data.layout = "none" -> Failed

(* In a reply record the parent key is read as the writer and the name and *)
(* the message are taken from the bytes of the replier key.  In a counter  *)
(* record the counter and the 24 zero bytes behind it are read as the      *)
(* writer, and the zeros that follow as two empty strings.                 *)
try_StudentIntroState(data) ==
    CASE data.layout = "intro" ->
           [ok |-> TRUE, discriminator |-> data.discriminator,
            is_initialized |-> data.is_initialized, writer |-> data.writer,
            name |-> data.name, message |-> data.message]
      [] data.layout = "reply" ->
           IF KeyAsStrings(data.replier).ok
           THEN [ok |-> TRUE, discriminator |-> data.discriminator,
                 is_initialized |-> data.is_initialized, writer |-> data.intro,
                 name |-> KeyAsStrings(data.replier).name,
                 message |-> KeyAsStrings(data.replier).message]
           ELSE Failed
      [] data.layout = "count" ->
           IF data.size >= (4 + Len(data.discriminator)) + 1 + 32 + 4 + 4
           THEN [ok |-> TRUE, discriminator |-> data.discriminator,
                 is_initialized |-> data.is_initialized,
                 writer |-> WithKeyLo(ZeroKey, data.counter),
                 name |-> EmptyStr, message |-> EmptyStr]
           ELSE Failed
      [] data.layout = "zero" ->
           IF data.size >= 4 + 1 + 32 + 4 + 4
           THEN [ok |-> TRUE, discriminator |-> "", is_initialized |-> FALSE,
                 writer |-> ZeroKey, name |-> EmptyStr, message |-> EmptyStr]
           ELSE Failed
      [] data.layout = "none" -> Failed

(* reply_intro reads a StudentReplyState only from the account it has just *)
(* created.                                                                *)
try_StudentReplyState(data) ==
    CASE data.layout = "reply" ->
           [ok |-> TRUE, discriminator |-> data.discriminator,
            is_initialized |-> data.is_initialized, intro |-> data.intro,
            replier |-> data.replier, name |-> data.name, message |-> data.message]
      [] data.layout = "count" ->
           IF data.size >= (4 + Len(data.discriminator)) + 1 + 32 + 32 + 4 + 4
           THEN [ok |-> TRUE, discriminator |-> data.discriminator,
                 is_initialized |-> data.is_initialized,
                 intro |-> WithKeyLo(ZeroKey, data.counter), replier |-> ZeroKey,
                 name |-> EmptyStr, message |-> EmptyStr]
           ELSE Failed
      [] data.layout = "zero" ->
           IF data.size >= 4 + 1 + 32 + 32 + 4 + 4
           THEN [ok |-> TRUE, discriminator |-> "", is_initialized |-> FALSE,
                 intro |-> ZeroKey, replier |-> ZeroKey,
                 name |-> EmptyStr, message |-> EmptyStr]
           ELSE Failed
      [] data.layout = "none" -> Failed

IntroEncodedLen(d) == (4 + Len(d.discriminator)) + 1 + 32 + (4 + d.name.len) + (4 + d.message.len)

ReplyEncodedLen(d) ==
    (4 + Len(d.discriminator)) + 1 + 32 + 32 + (4 + d.name.len) + (4 + d.message.len)

CountEncodedLen(d) == (4 + Len(d.discriminator)) + 1 + 8

(* What a serialize that ran out of room leaves in the slice: the writer   *)
(* copies what fits before it reports the error, so the whole slice holds  *)
(* the leading bytes of the encoding of d.                                 *)
Cut(data, d) ==
    IF data.size = 0 THEN data ELSE [layout |-> "cut", size |-> data.size, record |-> d]

(* serialize(&mut account.data[..]): overwrites the leading bytes of the   *)
(* account with the record; when the record does not fit the slice it      *)
(* fails, after it has filled the slice.                                   *)
serialize_intro(data, d) ==
    IF IntroEncodedLen(d) > data.size THEN [ok |-> FALSE, data |-> Cut(data, d)]
    ELSE [ok |-> TRUE,
          data |-> StudentIntroState(data.size, d.discriminator, d.is_initialized,
                                     d.writer, d.name, d.message)]

serialize_reply(data, d) ==
    IF ReplyEncodedLen(d) > data.size THEN [ok |-> FALSE, data |-> Cut(data, d)]
    ELSE [ok |-> TRUE,
          data |-> StudentReplyState(data.size, d.discriminator, d.is_initialized,
                                     d.intro, d.replier, d.name, d.message)]

(* The first ten bytes of key k replaced by a character, a bool and a u64. *)
WithKeyHead(k, discriminator, is_initialized, counter) ==
    <<"head", k, discriminator, is_initialized, counter>>

(* A counter written over a record whose discriminator has the length of   *)
(* its own lands on the first eight bytes of the key behind the            *)
(* is_initialized byte (in a mint: on bytes 2 to 9 of the authority); a    *)
(* counter written into zeros, or over a counter that is not longer,       *)
(* leaves zeros behind it.                                                 *)
serialize_count(data, d) ==
    IF CountEncodedLen(d) > data.size THEN [ok |-> FALSE, data |-> Cut(data, d)]
    ELSE CASE data.layout = "zero" ->
                [ok |-> TRUE,
                 data |-> ReplyCount(data.size, d.discriminator, d.is_initialized, d.counter)]
           [] data.layout = "count" /\ Len(d.discriminator) >= Len(data.discriminator) ->
                [ok |-> TRUE,
                 data |-> ReplyCount(data.size, d.discriminator, d.is_initialized, d.counter)]
           [] data.layout = "intro" /\ Len(d.discriminator) = Len(data.discriminator) ->
                [ok |-> TRUE,
                 data |-> [data EXCEPT !.discriminator = d.discriminator,
                                       !.is_initialized = d.is_initialized,
                                       !.writer = WithKeyLo(data.writer, d.counter)]]
           [] data.layout = "reply" /\ Len(d.discriminator) = Len(data.discriminator) ->
                [ok |-> TRUE,
                 data |-> [data EXCEPT !.discriminator = d.discriminator,
                                       !.is_initialized = d.is_initialized,
                                       !.intro = WithKeyLo(data.intro, d.counter)]]
           [] data.layout = "mint" /\ data.is_initialized /\ Len(d.discriminator) = 1 ->
                [ok |-> TRUE,
                 data |-> [data EXCEPT !.mint_authority =
                              WithKeyHead(@, d.discriminator, d.is_initialized, d.counter)]]

(* account.data.borrow_mut(): the handler writes into the buffer of the    *)
(* account it was passed, whoever owns the account.                        *)
stage_data(acc, k, data) == IF k \in DOMAIN acc THEN [acc EXCEPT ![k].data = data] ELSE acc

(* A serialize that succeeded: the bytes are in the buffer.  A program may *)
(* only change the data of an account it owns: the runtime finds the       *)
(* change to another program's account when it next looks at the account   *)
(* (at the cross-program call the account is passed to, or when the        *)
(* handler returns) and fails the instruction then.                        *)
write_data(acc, k, data) ==
    Result(IF AccountOf(acc, k).owner # program_id
           THEN "ExternalAccountDataModified" ELSE "Ok",
           stage_data(acc, k, data))

(* ---------------------------------------------------------------------- *)
(* Cross-program calls                                                    *)
(* ---------------------------------------------------------------------- *)
(* system_instruction::create_account through invoke_signed: `from` must   *)
(* have signed the transaction, `to` must be the address of the signer     *)
(* seeds, and `to` must not exist yet.                                     *)
(* The runtime checks the signer privileges of the call before it looks    *)
(* for the called program among the accounts passed.                       *)
create_account_overwriting(acc, system_program, from, from_signer, to, seeds_pda, space, owner) ==
    IF ~from_signer \/ to # seeds_pda THEN Result("PrivilegeEscalation", acc)
    ELSE IF system_program # SYSTEM_PROGRAM_ID THEN Result("MissingAccount", acc)
    ELSE Result("Ok", SetAccount(acc, to, Account(owner, Zeroed(space))))

create_account(acc, system_program, from, from_signer, to, seeds_pda, space, owner) ==
    IF ~from_signer \/ to # seeds_pda THEN Result("PrivilegeEscalation", acc)
    ELSE IF system_program # SYSTEM_PROGRAM_ID THEN Result("MissingAccount", acc)
    ELSE IF to \in DOMAIN acc THEN Result("AccountAlreadyInUse", acc)
    ELSE Result("Ok", SetAccount(acc, to, Account(owner, Zeroed(space))))

(* spl_token mint_to, signed by the mint authority seeds: the destination *)
(* is read first, then the mint, which has to be initialized.              *)
mint_to(acc, mint, destination, authority, seeds_pda, amount) ==
    LET dst == AccountOf(acc, destination)
        mnt == AccountOf(acc, mint)
    IN  IF authority # seeds_pda THEN Result("PrivilegeEscalation", acc)
        ELSE IF dst.owner # TOKEN_PROGRAM_ID \/ dst.data.layout # "token"
        THEN Result("TokenInvalidAccountData", acc)
        ELSE IF dst.data.mint # mint THEN Result("TokenMintMismatch", acc)
        ELSE IF mnt.data.layout # "mint" \/ ~mnt.data.is_initialized
        THEN Result("TokenUninitializedAccount", acc)
        ELSE IF mnt.data.mint_authority # authority THEN Result("TokenOwnerMismatch", acc)
        ELSE Result("Ok",
                 [acc EXCEPT ![destination].data.amount = @ + amount,
                             ![mint].data.supply = @ + amount])

(* spl_token initialize_mint on a fresh 82-byte account of the token       *)
(* program.                                                                *)
initialize_mint(acc, mint, mint_authority, decimals) ==
    LET mnt == AccountOf(acc, mint)
    IN  IF mnt.owner # TOKEN_PROGRAM_ID \/ mnt.data.size # MINT_LEN
        THEN Result("TokenInvalidAccountData", acc)
        ELSE IF mnt.data.layout = "mint" /\ mnt.data.is_initialized
        THEN Result("TokenAlreadyInUse", acc)
        ELSE Result("Ok",
                 SetAccount(acc, mint,
                     Account(TOKEN_PROGRAM_ID, MintData(TRUE, mint_authority, 0, decimals))))

(* ---------------------------------------------------------------------- *)
(* Instructions                                                           *)
(* ---------------------------------------------------------------------- *)
(* An instruction: what its data holds (op is the variant byte: one of    *)
(* the three variants, "InitializeMint", "Unknown" for any other byte,    *)
(* "Empty" for no data at all; payload_ok says whether the rest decodes   *)
(* as the payload, and then name and message are its fields) and its      *)
(* positional account list: n_accounts is its length, actor is the first  *)
(* account (writer, replier or initializer) and is_signer its signer      *)
(* flag; an account the list does not hold is NoKey.                      *)
AccountsTaken(op) ==
    CASE op = "StudentIntro" -> 8
      [] op = "UpdateIntro" -> 2
      [] op = "ReplyIntro" -> 9
      [] op = "InitializeMint" -> 6
      [] OTHER -> 0

Instruction(op, actor, is_signer, intro_pda, counter_pda, reply_pda, token_mint, mint_auth, user_ata, system_program, token_program, sysvar_rent, name, message) ==
    [op |-> op, actor |-> actor, is_signer |-> is_signer, intro_pda |-> intro_pda,
     counter_pda |-> counter_pda, reply_pda |-> reply_pda, token_mint |-> token_mint,
     mint_auth |-> mint_auth, user_ata |-> user_ata, system_program |-> system_program,
     token_program |-> token_program, sysvar_rent |-> sysvar_rent,
     n_accounts |-> AccountsTaken(op), payload_ok |-> TRUE,
     name |-> name, message |-> message]

(* ---------------------------------------------------------------------- *)
(* student_intro (processor.rs 49-197)                                    *)
(* ---------------------------------------------------------------------- *)
NewIntro(intro_data, writer, name, message) ==
    [intro_data EXCEPT !.discriminator = INTRO_DISCRIMINATOR, !.writer = writer,
                       !.name = name, !.message = message, !.is_initialized = TRUE]

NewCounter(counter_data) ==
    [counter_data EXCEPT !.discriminator = COUNT_DISCRIMINATOR, !.counter = U64(0),
                         !.is_initialized = TRUE]

student_intro_mint_skipped(acc, ix) == Result("Ok", acc)

student_intro_mint_error_dropped(acc, ix) ==
    LET m == mint_to(acc, ix.token_mint, ix.user_ata, ix.mint_auth, MintAuthPda, INTRO_REWARD)
    IN  IF m.err # "Ok" THEN Result("Ok", acc) ELSE m

student_intro_mint(acc, ix) ==
    mint_to(acc, ix.token_mint, ix.user_ata, ix.mint_auth, MintAuthPda, INTRO_REWARD)

student_intro_init(acc, ix) ==
    LET intro_read == try_StudentIntroState(AccountOf(acc, ix.intro_pda).data)
        counter_read == try_ReplyCount(AccountOf(acc, ix.counter_pda).data)
    IN  IF ~intro_read.ok \/ ~counter_read.ok THEN Result("ProgramFailedToComplete", acc)
        ELSE IF intro_read.is_initialized THEN Result("AccountAlreadyInitialized", acc)
        ELSE IF counter_read.is_initialized THEN Result("AccountAlreadyInitialized", acc)
        ELSE LET intro_data == NewIntro(intro_read, ix.actor, ix.name, ix.message)
                 counter_data == NewCounter(counter_read)
                 si == serialize_intro(AccountOf(acc, ix.intro_pda).data, intro_data)
                 sc == serialize_count(AccountOf(acc, ix.counter_pda).data, counter_data)
             IN  IF ~si.ok
                 THEN Result("BorshIoError", stage_data(acc, ix.intro_pda, si.data))
                 ELSE LET w1 == write_data(acc, ix.intro_pda, si.data)
                      IN  IF w1.err # "Ok" THEN w1
                          ELSE IF ~sc.ok
                          THEN Result("BorshIoError",
                                      stage_data(w1.accounts, ix.counter_pda, sc.data))
                          ELSE LET w2 == write_data(w1.accounts, ix.counter_pda, sc.data)
                               IN  IF w2.err # "Ok" THEN w2
                                   ELSE student_intro_mint(w2.accounts, ix)

student_intro_create(acc, ix) ==
    LET pda == IntroPda(ix.actor)
        pda_count == CounterPda(pda)
        c1 == create_account(acc, ix.system_program, ix.actor, ix.is_signer,
                             ix.intro_pda, pda, ACCOUNT_LEN, program_id)
    IN  IF c1.err # "Ok" THEN c1
        ELSE LET c2 == create_account(c1.accounts, ix.system_program, ix.actor,
                                      ix.is_signer, ix.counter_pda, pda_count,
                                      REPLY_COUNT_SIZE, program_id)
             IN  IF c2.err # "Ok" THEN c2
                 ELSE student_intro_init(c2.accounts, ix)

student_intro(acc, ix) ==
    LET writer == ix.actor
        pda == IntroPda(writer)
        pda_count == CounterPda(pda)
    IN  IF ix.n_accounts < AccountsTaken("StudentIntro")
        THEN Result("NotEnoughAccountKeys", acc)
        ELSE IF ~ix.is_signer THEN Result("MissingRequiredSignature", acc)
        ELSE IF pda # ix.intro_pda THEN Result("InvalidArgument", acc)
        ELSE IF pda_count # ix.counter_pda THEN Result("InvalidArgument", acc)
        ELSE IF MintPda # ix.token_mint THEN Result("IncorrectAccountError", acc)
        ELSE IF MintAuthPda # ix.mint_auth THEN Result("InvalidPDA", acc)
        ELSE IF ix.user_ata # get_associated_token_address(writer, ix.token_mint)
        THEN Result("IncorrectAccountError", acc)
        ELSE IF ix.token_program # TOKEN_PROGRAM_ID THEN Result("IncorrectAccountError", acc)
        ELSE IF IntroAccountSize(ix.name, ix.message) > ACCOUNT_LEN
        THEN Result("InvalidDataLength", acc)
        ELSE student_intro_create(acc, ix)

(* ---------------------------------------------------------------------- *)
(* update_intro (processor.rs 199-244)                                    *)
(* ---------------------------------------------------------------------- *)
UpdatedIntro_with_name(intro_data, name, message) ==
    [intro_data EXCEPT !.message = message, !.name = name]

UpdatedIntro(intro_data, name, message) == [intro_data EXCEPT !.message = message]

update_intro_without_pda_check(acc, ix) ==
    LET pda_intro == AccountOf(acc, ix.intro_pda)
        intro_read == try_StudentIntroState(pda_intro.data)
    IN  IF ix.n_accounts < AccountsTaken("UpdateIntro")
        THEN Result("NotEnoughAccountKeys", acc)
        ELSE IF pda_intro.owner # program_id THEN Result("IllegalOwner", acc)
        ELSE IF ~ix.is_signer THEN Result("MissingRequiredSignature", acc)
        ELSE IF ~intro_read.ok THEN Result("ProgramFailedToComplete", acc)
        ELSE IF ~intro_read.is_initialized THEN Result("UninitializedAccount", acc)
        ELSE IF IntroAccountSize(ix.name, ix.message) > ACCOUNT_LEN
        THEN Result("InvalidDataLength", acc)
        ELSE LET si == serialize_intro(pda_intro.data,
                                       UpdatedIntro(intro_read, ix.name, ix.message))
             IN  IF ~si.ok
                 THEN Result("BorshIoError", stage_data(acc, ix.intro_pda, si.data))
                 ELSE write_data(acc, ix.intro_pda, si.data)

update_intro(acc, ix) ==
    LET writer == ix.actor
        pda_intro == AccountOf(acc, ix.intro_pda)
        intro_read == try_StudentIntroState(pda_intro.data)
        pda == IntroPda(writer)
    IN  IF ix.n_accounts < AccountsTaken("UpdateIntro")
        THEN Result("NotEnoughAccountKeys", acc)
        ELSE IF pda_intro.owner # program_id THEN Result("IllegalOwner", acc)
        ELSE IF ~ix.is_signer THEN Result("MissingRequiredSignature", acc)
        ELSE IF ~intro_read.ok THEN Result("ProgramFailedToComplete", acc)
        ELSE IF pda # ix.intro_pda THEN Result("InvalidPDA", acc)
        ELSE IF ~intro_read.is_initialized THEN Result("UninitializedAccount", acc)
        ELSE IF IntroAccountSize(ix.name, ix.message) > ACCOUNT_LEN
        THEN Result("InvalidDataLength", acc)
        ELSE LET si == serialize_intro(pda_intro.data,
                                       UpdatedIntro(intro_read, ix.name, ix.message))
             IN  IF ~si.ok
                 THEN Result("BorshIoError", stage_data(acc, ix.intro_pda, si.data))
                 ELSE write_data(acc, ix.intro_pda, si.data)

(* ---------------------------------------------------------------------- *)
(* reply_intro (processor.rs 246-361)                                     *)
(* ---------------------------------------------------------------------- *)
NewReply(reply_data, pda_intro, replier, name, message) ==
    [reply_data EXCEPT !.discriminator = REPLY_DISCRIMINATOR, !.intro = pda_intro,
                       !.replier = replier, !.name = name, !.message = message,
                       !.is_initialized = TRUE]

IncrementedCounter_by_two(counter_data) ==
    [ok |-> TRUE, data |-> [counter_data EXCEPT !.counter = U64Inc(U64Inc(@))]]

(* counter_data.counter += 1 on a u64: at 2^64 - 1 the addition panics in  *)
(* a build with overflow checks and wraps to 0 in a build without.         *)
IncrementedCounter(counter_data) ==
    IF counter_data.counter = U64_MAX /\ overflow_checks THEN Failed
    ELSE [ok |-> TRUE, data |-> [counter_data EXCEPT !.counter = U64Inc(@)]]

reply_intro_mint_as_create(acc, ix) ==
    mint_to(acc, ix.token_mint, ix.user_ata, ix.mint_auth, MintAuthPda, INTRO_REWARD)

reply_intro_mint(acc, ix) ==
    mint_to(acc, ix.token_mint, ix.user_ata, ix.mint_auth, MintAuthPda, REPLY_REWARD)

reply_intro_init(acc, ix, counter_read) ==
    LET reply_read == try_StudentReplyState(AccountOf(acc, ix.reply_pda).data)
    IN  IF ~reply_read.ok THEN Result("ProgramFailedToComplete", acc)
        ELSE IF reply_read.is_initialized THEN Result("AccountAlreadyInitialized", acc)
        ELSE LET reply_data == NewReply(reply_read, ix.intro_pda, ix.actor,
                                        ix.name, ix.message)
                 incremented == IncrementedCounter(counter_read)
                 counter_data == incremented.data
                 sr == serialize_reply(AccountOf(acc, ix.reply_pda).data, reply_data)
             IN  IF ~incremented.ok THEN Result("ProgramFailedToComplete", acc)
                 ELSE IF ~sr.ok
                 THEN Result("BorshIoError", stage_data(acc, ix.reply_pda, sr.data))
                 ELSE LET w1 == write_data(acc, ix.reply_pda, sr.data)
                      IN  IF w1.err # "Ok" THEN w1
                          ELSE LET sc == serialize_count(
                                             AccountOf(w1.accounts, ix.counter_pda).data,
                                             counter_data)
                               IN  IF ~sc.ok
                                   THEN Result("BorshIoError",
                                               stage_data(w1.accounts, ix.counter_pda,
                                                          sc.data))
                                   ELSE LET w2 == write_data(w1.accounts,
                                                             ix.counter_pda, sc.data)
                                        IN  IF w2.err # "Ok" THEN w2
                                            ELSE reply_intro_mint(w2.accounts, ix)

reply_intro_create(acc, ix) ==
    LET counter_read == try_ReplyCount(AccountOf(acc, ix.counter_pda).data)
    IN  IF ~counter_read.ok THEN Result("ProgramFailedToComplete", acc)
        ELSE LET account_len == ReplyAccountSize(ix.name, ix.message)
                 pda == ReplyPda(ix.intro_pda, counter_read.counter)
             IN  IF pda # ix.reply_pda THEN Result("InvalidPDA", acc)
                 ELSE LET c1 == create_account(acc, ix.system_program, ix.actor,
                                               ix.is_signer, ix.reply_pda, pda,
                                               account_len, program_id)
                      IN  IF c1.err # "Ok" THEN c1
                          ELSE reply_intro_init(c1.accounts, ix, counter_read)

reply_intro(acc, ix) ==
    LET replier == ix.actor
    IN  IF ix.n_accounts < AccountsTaken("ReplyIntro")
        THEN Result("NotEnoughAccountKeys", acc)
        ELSE IF ix.token_mint # MintPda THEN Result("IncorrectAccountError", acc)
        ELSE IF ix.mint_auth # MintAuthPda THEN Result("IncorrectAccountError", acc)
        ELSE IF ix.user_ata # get_associated_token_address(replier, ix.token_mint)
        THEN Result("IncorrectAccountError", acc)
        ELSE IF ix.token_program # TOKEN_PROGRAM_ID THEN Result("IncorrectAccountError", acc)
        ELSE reply_intro_create(acc, ix)

(* ---------------------------------------------------------------------- *)
(* initialize_token_mint (processor.rs 363-445)                           *)
(* ---------------------------------------------------------------------- *)
initialize_token_mint(acc, ix) ==
    IF ix.n_accounts < AccountsTaken("InitializeMint")
    THEN Result("NotEnoughAccountKeys", acc)
    ELSE IF MintPda # ix.token_mint THEN Result("IncorrectAccountError", acc)
    ELSE IF ix.token_program # TOKEN_PROGRAM_ID THEN Result("IncorrectAccountError", acc)
    ELSE IF ix.mint_auth # MintAuthPda THEN Result("IncorrectAccountError", acc)
    ELSE IF ix.system_program # SYSTEM_PROGRAM_ID THEN Result("IncorrectAccountError", acc)
    ELSE IF ix.sysvar_rent # RENT_PROGRAM_ID THEN Result("IncorrectAccountError", acc)
    ELSE LET c1 == create_account(acc, ix.system_program, ix.actor, ix.is_signer,
                                  ix.token_mint, MintPda, MINT_LEN, ix.token_program)
         IN  IF c1.err # "Ok" THEN c1
             ELSE initialize_mint(c1.accounts, ix.token_mint, ix.mint_auth, MINT_DECIMALS)

(* ---------------------------------------------------------------------- *)
(* process_instruction (processor.rs 25-47) and the transaction around it *)
(* ---------------------------------------------------------------------- *)
(* processor.rs 45 dispatches StudentInstruction::InitializeMint, a       *)
(* variant that instruction.rs neither declares nor decodes; its encoding *)
(* is taken from the operation table of the specification: a separate     *)
(* operation without payload.                                             *)
IsInitializeMint(ix) == ix.op = "InitializeMint"

(* StudentInstruction::unpack (instruction.rs 17-40): the payload is       *)
(* decoded, and unwrapped, before the variant byte is looked at.           *)
unpack(ix) ==
    IF ix.op = "Empty" THEN [ok |-> FALSE, err |-> "InvalidInstructionData"]
    ELSE IF IsInitializeMint(ix) THEN [ok |-> TRUE, variant |-> "InitializeMint"]
    ELSE IF ~ix.payload_ok THEN [ok |-> FALSE, err |-> "ProgramFailedToComplete"]
    ELSE IF ix.op \in {"StudentIntro", "UpdateIntro", "ReplyIntro"}
    THEN [ok |-> TRUE, variant |-> ix.op]
    ELSE [ok |-> FALSE, err |-> "InvalidInstructionData"]

process_instruction(acc, ix) ==
    LET instruction == unpack(ix)
    IN  IF ~instruction.ok THEN Result(instruction.err, acc)
        ELSE CASE instruction.variant = "StudentIntro" -> student_intro(acc, ix)
               [] instruction.variant = "UpdateIntro" -> update_intro(acc, ix)
               [] instruction.variant = "ReplyIntro" -> reply_intro(acc, ix)
               [] instruction.variant = "InitializeMint" -> initialize_token_mint(acc, ix)

(* The host ledger runs an instruction as one atomic unit: it keeps the    *)
(* accounts as the handler left them when the ProgramResult is Ok and the  *)
(* accounts as they were when it is an Err, whatever the handler had       *)
(* written by then.  The host is not part of this repository; the rule is  *)
(* the one the specification states ("either all storage mutations         *)
(* (record writes, counter increment, token mint) take effect or none      *)
(* do").                                                                   *)
Committed(acc, result) == IF result.err = "Ok" THEN result.accounts ELSE acc

(* ---------------------------------------------------------------------- *)
(* State, inputs and actions                                              *)
(* ---------------------------------------------------------------------- *)
(* last is the last transaction and its result; replyLog lists, in order, *)
(* the replies that succeeded: the introduction slot named, the counter   *)
(* value read (the sequence number in the reply address), the counter     *)
(* slot named, the reply slot created and the data then held by the       *)
(* counter slot derived from the introduction slot.                       *)
NoInstruction ==
    Instruction("None", NoKey, FALSE, NoKey, NoKey, NoKey, NoKey, NoKey, NoKey,
                NoKey, NoKey, NoKey, EmptyStr, EmptyStr)

Init ==
    /\ accounts = [k \in Identities |-> Account(SYSTEM_PROGRAM_ID, NoData)]
    /\ last = [ix |-> NoInstruction, err |-> "None"]
    /\ replyLog = <<>>
    /\ overflow_checks \in BOOLEAN
    /\ mint_auth_head \in MintAuthHeads

CounterRead(acc, ix) == try_ReplyCount(AccountOf(acc, ix.counter_pda).data)

LogEntry(acc, ix) ==
    [intro |-> ix.intro_pda, seq |-> CounterRead(acc, ix).counter,
     counter_pda |-> ix.counter_pda, reply |-> ix.reply_pda,
     own_counter |-> AccountOf(acc, CounterPda(ix.intro_pda)).data]

NoResult == [ix |-> NoInstruction, err |-> "None"]

(* One transaction: the caller submits ix and the result comes back.       *)
Transaction(ix) ==
    LET result == process_instruction(accounts, ix)
    IN  /\ last = NoResult
        /\ accounts' = Committed(accounts, result)
        /\ last' = [ix |-> ix, err |-> result.err]
        /\ replyLog' = IF ix.op = "ReplyIntro" /\ result.err = "Ok"
                       THEN Append(replyLog, LogEntry(accounts, ix))
                       ELSE replyLog
        /\ UNCHANGED <<overflow_checks, mint_auth_head>>

(* An account list without its last account.                               *)
WithoutLastAccount(ix) ==
    CASE ix.op = "UpdateIntro" -> [ix EXCEPT !.intro_pda = NoKey, !.n_accounts = @ - 1]
      [] ix.op = "InitializeMint" -> [ix EXCEPT !.sysvar_rent = NoKey, !.n_accounts = @ - 1]
      [] OTHER -> [ix EXCEPT !.token_program = NoKey, !.n_accounts = @ - 1]

(* Inputs: a well-formed instruction of each identity, one of Key("A")    *)
(* with a single account of the list (or the signature) replaced, one     *)
(* with a shorter account list, and ones naming other slots.              *)
Deviations ==
    {"none", "unsigned", "token_mint", "mint_auth", "user_ata", "system_program",
     "token_program", "sysvar_rent", "short"}

Deviate(ix, dev) ==
    CASE dev = "unsigned" -> [ix EXCEPT !.is_signer = FALSE]
      [] dev = "token_mint" -> [ix EXCEPT !.token_mint = Wrong]
      [] dev = "mint_auth" -> [ix EXCEPT !.mint_auth = Wrong]
      [] dev = "user_ata" -> [ix EXCEPT !.user_ata = Wrong]
      [] dev = "system_program" -> [ix EXCEPT !.system_program = Wrong]
      [] dev = "token_program" -> [ix EXCEPT !.token_program = Wrong]
      [] dev = "sysvar_rent" -> [ix EXCEPT !.sysvar_rent = Wrong]
      [] dev = "short" -> WithoutLastAccount(ix)
      [] OTHER -> ix

Alice == Str("Alice", 5)

Bob == Str("Bob", 3)

LongName == Str("name of 900 bytes", 900)

Hi == Str("hi", 2)

Hello == Str("hello", 5)

Msg945 == Str("message of 945 bytes", 945)

Msg946 == Str("message of 946 bytes", 946)

StudentIntroIx(writer, intro_pda, counter_pda, name, message) ==
    Instruction("StudentIntro", writer, TRUE, intro_pda, counter_pda, NoKey, MintPda,
                MintAuthPda, get_associated_token_address(writer, MintPda),
                SYSTEM_PROGRAM_ID, TOKEN_PROGRAM_ID, NoKey, name, message)

UpdateIntroIx(writer, pda_intro, name, message) ==
    Instruction("UpdateIntro", writer, TRUE, pda_intro, NoKey, NoKey, NoKey, NoKey,
                NoKey, NoKey, NoKey, NoKey, name, message)

ReplyIntroIx(replier, pda_intro, pda_counter, pda_reply, name, message) ==
    Instruction("ReplyIntro", replier, TRUE, pda_intro, pda_counter, pda_reply, MintPda,
                MintAuthPda, get_associated_token_address(replier, MintPda),
                SYSTEM_PROGRAM_ID, TOKEN_PROGRAM_ID, NoKey, name, message)

InitializeMintIx(initializer) ==
    Instruction("InitializeMint", initializer, TRUE, NoKey, NoKey, NoKey, MintPda,
                MintAuthPda, NoKey, SYSTEM_PROGRAM_ID, TOKEN_PROGRAM_ID,
                RENT_PROGRAM_ID, EmptyStr, EmptyStr)

IntroSlots == {IntroPda(w) : w \in Identities}

CounterSlots == {CounterPda(p) : p \in IntroSlots}

ReplySlots == {replyLog[i].reply : i \in DOMAIN replyLog}

CounterAt(k) == try_ReplyCount(AccountOf(accounts, k).data)

(* The sequence numbers a caller may build the reply address from: the     *)
(* value now in the counter slot, the one before it (a stale read) and 0.  *)
ReplySeqs(k) ==
    {U64(0)} \cup (IF CounterAt(k).ok
                   THEN {CounterAt(k).counter} \cup
                        (IF CounterAt(k).counter # U64(0)
                         THEN {U64Dec(CounterAt(k).counter)} ELSE {})
                   ELSE {})

WellFormedReply(r, ip, name, message) ==
    ReplyIntroIx(r, ip, CounterPda(ip),
                 ReplyPda(ip, IF CounterAt(CounterPda(ip)).ok
                              THEN CounterAt(CounterPda(ip)).counter ELSE U64(0)),
                 name, message)

StudentIntroInputs ==
    {Deviate(StudentIntroIx(w, IntroPda(w), CounterPda(IntroPda(w)), Alice, Hi), d) :
        w \in {Key("A")}, d \in Deviations}
    \cup {StudentIntroIx(w, ip, cp, Alice, Hi) :
            w \in Identities, ip \in IntroSlots, cp \in CounterSlots}

UpdateIntroInputs ==
    {UpdateIntroIx(w, ip, n, m) :
        w \in Identities, ip \in IntroSlots, n \in {Alice, Bob}, m \in {Hello, Msg946}}
    \cup {UpdateIntroIx(w, ip, Alice, Hello) :
            w \in {Key("A")},
            ip \in ReplySlots \cup {CounterPda(IntroPda(Key("A"))), MintPda, Wrong}}
    \cup {Deviate(UpdateIntroIx(w, IntroPda(w), Alice, Hello), d) :
            w \in {Key("A")}, d \in {"unsigned", "short"}}

ReplyIntroInputs ==
    {Deviate(WellFormedReply(r, ip, Alice, Hi), d) :
        r \in {Key("A")}, ip \in IntroSlots, d \in Deviations}
    \cup UNION {{ReplyIntroIx(r, ip, cp, ReplyPda(ip, s), Alice, Hi) : s \in ReplySeqs(cp)} :
                r \in Identities, ip \in IntroSlots, cp \in CounterSlots}

InitializeMintInputs ==
    {InitializeMintIx(i) : i \in Identities}
    \cup {Deviate(InitializeMintIx(i), d) : i \in {Key("A")}, d \in Deviations}

(* Instruction data that does not decode: no data, an unknown variant     *)
(* byte, a payload that is not two borsh strings.                          *)
Malformed(ix) == [ix EXCEPT !.payload_ok = FALSE]

InvalidInstructionInputs ==
    {[StudentIntroIx(Key("A"), IntroPda(Key("A")), CounterPda(IntroPda(Key("A"))), Alice, Hi)
         EXCEPT !.op = o] : o \in {"Empty", "Unknown"}}
    \cup {Malformed([UpdateIntroIx(Key("A"), IntroPda(Key("A")), Alice, Hello)
                        EXCEPT !.op = o]) : o \in {"UpdateIntro", "Unknown"}}

StudentIntro == \E ix \in StudentIntroInputs : Transaction(ix)

InvalidInstruction == \E ix \in InvalidInstructionInputs : Transaction(ix)

UpdateIntro == \E ix \in UpdateIntroInputs : Transaction(ix)

ReplyIntro ==
    /\ Len(replyLog) < MaxReplies
    /\ \E ix \in ReplyIntroInputs : Transaction(ix)

InitializeMint == \E ix \in InitializeMintInputs : Transaction(ix)

(* The client creates a user's associated token account for the reward    *)
(* mint (the account student_intro and reply_intro require as user_ata).   *)
CreateAta(w) ==
    LET ata == get_associated_token_address(w, MintPda)
        mnt == AccountOf(accounts, MintPda)
    IN  /\ last = NoResult
        /\ mnt.owner = TOKEN_PROGRAM_ID
        /\ mnt.data.layout = "mint"
        /\ mnt.data.is_initialized
        /\ ata \notin DOMAIN accounts
        /\ accounts' = SetAccount(accounts, ata,
                           Account(TOKEN_PROGRAM_ID, TokenAccountData(MintPda, w, 0)))
        /\ last' = [ix |-> [NoInstruction EXCEPT !.op = "CreateAta", !.actor = w],
                    err |-> "Ok"]
        /\ UNCHANGED <<replyLog, overflow_checks, mint_auth_head>>

CreateAssociatedTokenAccount == \E w \in Identities : CreateAta(w)

(* The caller takes the result; the next transaction follows.              *)
Return ==
    /\ last # NoResult
    /\ last' = NoResult
    /\ UNCHANGED <<accounts, replyLog, overflow_checks, mint_auth_head>>

Next ==
    \/ StudentIntro
    \/ UpdateIntro
    \/ ReplyIntro
    \/ InitializeMint
    \/ InvalidInstruction
    \/ CreateAssociatedTokenAccount
    \/ Return

Spec == Init /\ [][Next]_vars

TypeOK == Len(replyLog) <= MaxReplies

(* ---------------------------------------------------------------------- *)
(* The same program driven with payloads around the 1000-byte capacity    *)
(* ---------------------------------------------------------------------- *)
Names == {Alice, LongName}

Messages == {Hi, Msg945, Msg946}

SizedStudentIntroInputs ==
    {StudentIntroIx(w, IntroPda(w), CounterPda(IntroPda(w)), n, m) :
        w \in Identities, n \in Names, m \in Messages}

SizedUpdateIntroInputs ==
    {UpdateIntroIx(w, IntroPda(w), n, m) : w \in Identities, n \in Names, m \in Messages}

SizedReplyIntroInputs ==
    {WellFormedReply(r, ip, Alice, m) :
        r \in Identities, ip \in IntroSlots, m \in {Hi, Msg946}}

SizedStudentIntro == \E ix \in SizedStudentIntroInputs : Transaction(ix)

SizedUpdateIntro == \E ix \in SizedUpdateIntroInputs : Transaction(ix)

SizedReplyIntro ==
    /\ Len(replyLog) < MaxReplies
    /\ \E ix \in SizedReplyIntroInputs : Transaction(ix)

NextSize ==
    \/ SizedStudentIntro
    \/ SizedUpdateIntro
    \/ SizedReplyIntro
    \/ InitializeMint
    \/ InvalidInstruction
    \/ CreateAssociatedTokenAccount
    \/ Return

SpecSize == Init /\ [][NextSize]_vars

(* ---------------------------------------------------------------------- *)
(* The same program driven with replies that name any slot as the         *)
(* introduction slot and as the counter slot, sent by a replier whose key *)
(* reads as two strings (Key("G")), also under a parent key whose first   *)
(* eight bytes are FF (Key("F"))                                          *)
(* ---------------------------------------------------------------------- *)
AliasedReplyIntroInputs ==
    UNION {{ReplyIntroIx(r, ip, cp, ReplyPda(ip, s), Alice, Hi) : s \in ReplySeqs(cp)} :
            r \in {Key("G")}, ip \in {IntroPda(Key("A")), Key("F")},
            cp \in {CounterPda(IntroPda(Key("A"))), IntroPda(Key("A")), MintPda, Key("A")}
                   \cup ReplySlots}

CreateAssociatedTokenAccountOfReplier == CreateAta(Key("G"))

AliasedReplyIntro ==
    /\ Len(replyLog) < MaxReplies
    /\ \E ix \in AliasedReplyIntroInputs : Transaction(ix)

NextAlias ==
    \/ StudentIntro
    \/ UpdateIntro
    \/ AliasedReplyIntro
    \/ InitializeMint
    \/ InvalidInstruction
    \/ CreateAssociatedTokenAccount
    \/ CreateAssociatedTokenAccountOfReplier
    \/ Return

SpecAlias == Init /\ [][NextAlias]_vars

(* ---------------------------------------------------------------------- *)
(* Observations used by the properties                                    *)
(* ---------------------------------------------------------------------- *)
IsWriterRecord(acc, k) ==
    /\ AccountOf(acc, k).owner = program_id
    /\ AccountOf(acc, k).data.layout = "intro"
    /\ AccountOf(acc, k).data.is_initialized

TokenAmount(acc, k) ==
    IF AccountOf(acc, k).data.layout = "token" THEN AccountOf(acc, k).data.amount ELSE 0

Balance(acc, w) == TokenAmount(acc, get_associated_token_address(w, MintPda))

MintReady(acc) ==
    /\ AccountOf(acc, MintPda).owner = TOKEN_PROGRAM_ID
    /\ AccountOf(acc, MintPda).data.layout = "mint"
    /\ AccountOf(acc, MintPda).data.is_initialized

RewardReady(acc, w) ==
    /\ MintReady(acc)
    /\ AccountOf(acc, get_associated_token_address(w, MintPda)).data.layout = "token"

RepliesTo(p) == {i \in DOMAIN replyLog : replyLog[i].intro = p}

Succeeded(op) == last.ix.op = op /\ last.err = "Ok"

(* ---------------------------------------------------------------------- *)
(* Properties                                                             *)
(* ---------------------------------------------------------------------- *)

(* C1: for every WriterRecord W, the ReplyCounter stored at                *)
(* derive(W, "counter") equals the number of ReplyRecords ever created     *)
(* whose parent reference is W.                                            *)
C1_CounterEqualsReplies ==
    \A w \in Identities :
        IsWriterRecord(accounts, IntroPda(w)) =>
            AccountOf(accounts, CounterPda(IntroPda(w))).data.counter
                = U64(Cardinality(RepliesTo(IntroPda(w))))

(* C2: the k-th reply created for an introduction is stored at             *)
(* derive(introduction, be(k-1)), and its sequence number is the value     *)
(* that introduction's own ReplyCounter held just before the increment.    *)
C2_ReplyAddressesGapFree ==
    \A i \in DOMAIN replyLog :
        LET p == replyLog[i].intro
            k == Cardinality({j \in 1..i : replyLog[j].intro = p})
        IN  IsWriterRecord(accounts, p) =>
                /\ replyLog[i].reply = ReplyPda(p, U64(k - 1))
                /\ replyLog[i].own_counter.layout = "count"
                /\ replyLog[i].seq = replyLog[i].own_counter.counter

WellFormedCreate(ix) ==
    ix = StudentIntroIx(ix.actor, IntroPda(ix.actor), CounterPda(IntroPda(ix.actor)),
                        ix.name, ix.message)

WellFormedUpdate(ix) == ix = UpdateIntroIx(ix.actor, IntroPda(ix.actor), ix.name, ix.message)

(* C3: the first valid create-introduction of an identity succeeds, and    *)
(* every later one is rejected with AccountAlreadyInitialized and leaves   *)
(* the state as it was.                                                    *)
C3_SecondCreateAlreadyInitialized ==
    [][(/\ last'.ix.op = "StudentIntro"
        /\ WellFormedCreate(last'.ix)
        /\ IntroAccountSize(last'.ix.name, last'.ix.message) <= ACCOUNT_LEN
        /\ RewardReady(accounts, last'.ix.actor))
       => IF IsWriterRecord(accounts, IntroPda(last'.ix.actor))
          THEN last'.err = "AccountAlreadyInitialized" /\ accounts' = accounts
          ELSE last'.err = "Ok"]_vars

(* C4: a successful create-introduction adds exactly 10 to the actor's     *)
(* reward balance, a successful reply exactly 5 to the replier's, and no   *)
(* other step changes any balance.                                         *)
C4_RewardAmounts ==
    [][\A k \in (DOMAIN accounts) \cup (DOMAIN accounts') :
          TokenAmount(accounts', k) - TokenAmount(accounts, k) =
              IF last'.err = "Ok" /\ last'.ix.op = "StudentIntro"
                 /\ k = get_associated_token_address(last'.ix.actor, MintPda)
              THEN 10
              ELSE IF last'.err = "Ok" /\ last'.ix.op = "ReplyIntro"
                      /\ k = get_associated_token_address(last'.ix.actor, MintPda)
              THEN 5
              ELSE 0]_vars

C4_Witness ==
    /\ Succeeded("ReplyIntro")
    /\ IsWriterRecord(accounts, IntroPda(last.ix.actor))
    /\ Balance(accounts, last.ix.actor) = 15
    /\ \E w \in Identities : w # last.ix.actor /\ Balance(accounts, w) = 10

(* C5: an Active WriterRecord stays Active, keeps its owner, name and tag, *)
(* and its message changes only by a successful update-introduction signed *)
(* by the identity its address is derived from.                            *)
C5_WriterRecordStable ==
    [][\A k \in DOMAIN accounts :
          IsWriterRecord(accounts, k) =>
              /\ IsWriterRecord(accounts', k)
              /\ accounts'[k].data.writer = accounts[k].data.writer
              /\ accounts'[k].data.name = accounts[k].data.name
              /\ accounts'[k].data.discriminator = accounts[k].data.discriminator
              /\ (accounts'[k].data.message # accounts[k].data.message =>
                     /\ last'.ix.op = "UpdateIntro"
                     /\ last'.err = "Ok"
                     /\ last'.ix.is_signer
                     /\ k = IntroPda(last'.ix.actor))]_vars

(* C6: a successful update-introduction sets the message to the payload    *)
(* message and changes nothing else: not the record's other fields, not    *)
(* its counter, no reply, no other record, no balance.                     *)
C6_UpdateFrame ==
    [][(last'.ix.op = "UpdateIntro" /\ last'.err = "Ok") =>
          LET k == last'.ix.intro_pda
          IN  /\ DOMAIN accounts' = DOMAIN accounts
              /\ \A j \in DOMAIN accounts : j # k => accounts'[j] = accounts[j]
              /\ accounts'[k] = [accounts[k] EXCEPT !.data.message = last'.ix.message]
              /\ replyLog' = replyLog]_vars

C6_Witness ==
    /\ Succeeded("UpdateIntro")
    /\ accounts[last.ix.intro_pda].data.message = Hello
    /\ accounts[last.ix.intro_pda].data.name # last.ix.name
    /\ RepliesTo(last.ix.intro_pda) # {}
    /\ Balance(accounts, last.ix.actor) = 10

(* C7 as stated: an update-introduction naming a slot other than           *)
(* derive(caller, "intro") fails with InvalidPDA whatever the payload and  *)
(* whatever the slot holds, and changes no state.                          *)
C7_WrongSlotAlwaysInvalidPDA ==
    [][(/\ last'.ix.op = "UpdateIntro"
        /\ last'.ix.payload_ok
        /\ last'.ix.n_accounts >= AccountsTaken("UpdateIntro")
        /\ last'.ix.is_signer
        /\ last'.ix.intro_pda # IntroPda(last'.ix.actor))
       => last'.err = "InvalidPDA" /\ accounts' = accounts]_vars

(* C7 amended: such an update, passing both of its accounts, never        *)
(* succeeds and changes no state; it                                       *)
(* fails with IllegalOwner when the slot is not owned by this program,     *)
(* with InvalidPDA when the slot's bytes decode as an introduction record  *)
(* (a WriterRecord, or a reply whose replier key reads as two strings),    *)
(* and aborts when they do not (a counter, any other reply).               *)
C7_WrongSlotRejected ==
    [][(/\ last'.ix.op = "UpdateIntro"
        /\ last'.ix.payload_ok
        /\ last'.ix.n_accounts >= AccountsTaken("UpdateIntro")
        /\ last'.ix.is_signer
        /\ last'.ix.intro_pda # IntroPda(last'.ix.actor))
       => /\ accounts' = accounts
          /\ replyLog' = replyLog
          /\ last'.err =
                IF AccountOf(accounts, last'.ix.intro_pda).owner # program_id
                THEN "IllegalOwner"
                ELSE IF \/ AccountOf(accounts, last'.ix.intro_pda).data.layout = "intro"
                        \/ /\ AccountOf(accounts, last'.ix.intro_pda).data.layout = "reply"
                           /\ KeyAsStrings(accounts[last'.ix.intro_pda].data.replier).ok
                THEN "InvalidPDA"
                ELSE "ProgramFailedToComplete"]_vars

C7_Witness ==
    /\ last.ix.op = "UpdateIntro"
    /\ last.ix.is_signer
    /\ last.ix.intro_pda # IntroPda(last.ix.actor)
    /\ IsWriterRecord(accounts, last.ix.intro_pda)
    /\ IsWriterRecord(accounts, IntroPda(last.ix.actor))
    /\ IntroAccountSize(last.ix.name, last.ix.message) > ACCOUNT_LEN
    /\ last.err = "InvalidPDA"

(* C8: a create-introduction or update-introduction with otherwise valid   *)
(* inputs is rejected with InvalidDataLength exactly when the encoded size *)
(* of its name and message exceeds 1000 bytes, and succeeds otherwise (in  *)
(* particular at exactly 1000 bytes).                                      *)
C8_SizeLimit ==
    [][(\/ /\ last'.ix.op = "StudentIntro"
           /\ WellFormedCreate(last'.ix)
           /\ RewardReady(accounts, last'.ix.actor)
           /\ IntroPda(last'.ix.actor) \notin DOMAIN accounts
        \/ /\ last'.ix.op = "UpdateIntro"
           /\ WellFormedUpdate(last'.ix)
           /\ IsWriterRecord(accounts, IntroPda(last'.ix.actor)))
       => last'.err = IF IntroAccountSize(last'.ix.name, last'.ix.message) > 1000
                      THEN "InvalidDataLength" ELSE "Ok"]_vars

(* C9: a reply whose encoded name and message exceed the 1000-byte         *)
(* capacity is rejected with InvalidDataLength, so no ReplyRecord larger   *)
(* than 1000 bytes exists.                                                 *)
C9_OversizedReplyRejected ==
    [][/\ (/\ last'.ix.op = "ReplyIntro"
           /\ last'.ix = WellFormedReply(last'.ix.actor, last'.ix.intro_pda,
                                         last'.ix.name, last'.ix.message)
           /\ IsWriterRecord(accounts, last'.ix.intro_pda)
           /\ RewardReady(accounts, last'.ix.actor)
           /\ ReplyAccountSize(last'.ix.name, last'.ix.message) > 1000)
          => last'.err = "InvalidDataLength" /\ accounts' = accounts
       /\ \A k \in DOMAIN accounts' :
             accounts'[k].data.layout = "reply" => accounts'[k].data.size <= 1000]_vars

IsReplyRecord(acc, k) ==
    /\ AccountOf(acc, k).owner = program_id
    /\ AccountOf(acc, k).data.layout = "reply"
    /\ AccountOf(acc, k).data.is_initialized

IsReplyCounter(acc, k) ==
    /\ AccountOf(acc, k).owner = program_id
    /\ AccountOf(acc, k).data.layout = "count"
    /\ AccountOf(acc, k).data.is_initialized

(* The reward issuance of ix fails on the ledger acc.                      *)
IssuanceFails(acc, ix, amount) ==
    mint_to(acc, ix.token_mint, ix.user_ata, ix.mint_auth, MintAuthPda, amount).err # "Ok"

(* A create on the ledger acc whose handler has staged the new             *)
(* WriterRecord and its ReplyCounter and whose reward issuance fails on    *)
(* the ledger so staged.                                                   *)
CreateStagedIssuanceFails(acc, ix) ==
    /\ ix.op = "StudentIntro"
    /\ ix.intro_pda \notin DOMAIN acc
    /\ IsWriterRecord(process_instruction(acc, ix).accounts, ix.intro_pda)
    /\ IsReplyCounter(process_instruction(acc, ix).accounts, ix.counter_pda)
    /\ IssuanceFails(process_instruction(acc, ix).accounts, ix, INTRO_REWARD)

(* A reply on the ledger acc whose handler has staged the new ReplyRecord  *)
(* and the counter write and whose reward issuance fails on the ledger so  *)
(* staged.                                                                 *)
ReplyStagedIssuanceFails(acc, ix) ==
    /\ ix.op = "ReplyIntro"
    /\ ix.reply_pda \notin DOMAIN acc
    /\ IsReplyRecord(process_instruction(acc, ix).accounts, ix.reply_pda)
    /\ AccountOf(process_instruction(acc, ix).accounts, ix.counter_pda)
          # AccountOf(acc, ix.counter_pda)
    /\ IssuanceFails(process_instruction(acc, ix).accounts, ix, REPLY_REWARD)

(* C10: an operation that ends in an error leaves every account and every  *)
(* record as it was; and a create or a reply whose reward issuance fails   *)
(* after the handler had staged the record and counter writes ends in an   *)
(* error, so that it leaves no new record and no counter increment.        *)
C10_ErrorsChangeNothing ==
    [][/\ (last'.err # "Ok" /\ last'.err # "None") =>
              accounts' = accounts /\ replyLog' = replyLog
       /\ (CreateStagedIssuanceFails(accounts, last'.ix)
            \/ ReplyStagedIssuanceFails(accounts, last'.ix)) =>
              /\ last'.err # "Ok"
              /\ accounts' = accounts
              /\ replyLog' = replyLog]_vars

C10_Witness ==
    /\ last.err = "TokenInvalidAccountData"
    /\ CreateStagedIssuanceFails(accounts, last.ix)
    /\ IntroPda(last.ix.actor) \notin DOMAIN accounts
    /\ CounterPda(IntroPda(last.ix.actor)) \notin DOMAIN accounts

(* C11: a ReplyRecord, once created, keeps every field (parent reference,  *)
(* replier, name, message, initialized flag, tag) in every later step:     *)
(* no reply re-initialises it, no update-introduction targets it and no    *)
(* reply writes to it by naming it as the counter slot.                    *)
C11_ReplyRecordImmutable ==
    [][\A k \in DOMAIN accounts :
          IsReplyRecord(accounts, k) => accounts'[k] = accounts[k]]_vars

(* C12: a ReplyCounter comes into existence with value 0 in the           *)
(* successful create-introduction that creates its WriterRecord; after     *)
(* that every step leaves it unchanged or adds exactly 1 to it, and adds 1 *)
(* only as the effect of a successful reply that names it as the counter   *)
(* slot; it is never removed, decremented or reset.                        *)
C12_CounterSteps ==
    [][\/ accounts' = accounts
       \/ /\ \A k \in DOMAIN accounts' :
                IsReplyCounter(accounts', k) =>
                    IF IsReplyCounter(accounts, k)
                    THEN \/ accounts'[k] = accounts[k]
                         \/ /\ accounts'[k] = [accounts[k] EXCEPT !.data.counter = U64Inc(@)]
                            /\ last'.ix.op = "ReplyIntro"
                            /\ last'.err = "Ok"
                            /\ last'.ix.counter_pda = k
                    ELSE /\ accounts'[k].data.counter = U64(0)
                         /\ k \notin DOMAIN accounts
                         /\ last'.ix.op = "StudentIntro"
                         /\ last'.err = "Ok"
                         /\ k = CounterPda(IntroPda(last'.ix.actor))
                         /\ ~IsWriterRecord(accounts, IntroPda(last'.ix.actor))
                         /\ IsWriterRecord(accounts', IntroPda(last'.ix.actor))
          /\ \A k \in DOMAIN accounts :
                IsReplyCounter(accounts, k) => IsReplyCounter(accounts', k)
          /\ \A k \in DOMAIN accounts' :
                (IsWriterRecord(accounts', k) /\ ~IsWriterRecord(accounts, k)) =>
                    (IsReplyCounter(accounts', CounterPda(k))
                     /\ CounterPda(k) \notin DOMAIN accounts)]_vars

C12_Witness ==
    /\ Succeeded("ReplyIntro")
    /\ IsReplyCounter(accounts, last.ix.counter_pda)
    /\ accounts[last.ix.counter_pda].data.counter = U64(2)
    /\ \E w \in Identities :
          /\ CounterPda(IntroPda(w)) # last.ix.counter_pda
          /\ IsReplyCounter(accounts, CounterPda(IntroPda(w)))
          /\ accounts[CounterPda(IntroPda(w))].data.counter = U64(0)

(* C13: replies to one introduction built from the same observed counter *)
(* value n and run one after the other: a reply whose reply slot already   *)
(* exists (another reply took that number) fails and changes nothing, so   *)
(* at most one of them creates the record at derive(introduction, be(n));  *)
(* no two replies ever created share a (parent, sequence number) pair, and *)
(* every ReplyRecord is the record of exactly one of them, at the address  *)
(* of its pair.                                                            *)
C13_UniqueSequenceNumbers ==
    [][/\ (last'.ix.op = "ReplyIntro" /\ last'.ix.reply_pda \in DOMAIN accounts) =>
             (last'.err \notin {"Ok", "None"} /\ accounts' = accounts /\ replyLog' = replyLog)
       /\ \A i, j \in DOMAIN replyLog' :
             (replyLog'[i].intro = replyLog'[j].intro /\ replyLog'[i].seq = replyLog'[j].seq)
                 => i = j
       /\ \A k \in DOMAIN accounts' :
             AccountOf(accounts', k).data.layout = "reply" =>
                 /\ Cardinality({i \in DOMAIN replyLog' : replyLog'[i].reply = k}) = 1
                 /\ \A i \in DOMAIN replyLog' :
                       replyLog'[i].reply = k =>
                           k = ReplyPda(replyLog'[i].intro, replyLog'[i].seq)]_vars

C13_Witness ==
    /\ last.ix.op = "ReplyIntro"
    /\ last.err = "InvalidPDA"
    /\ last.ix.is_signer
    /\ last.ix.counter_pda = CounterPda(last.ix.intro_pda)
    /\ IsWriterRecord(accounts, last.ix.intro_pda)
    /\ IsReplyCounter(accounts, last.ix.counter_pda)
    /\ accounts[last.ix.counter_pda].data.counter # U64(0)
    /\ last.ix.reply_pda =
          ReplyPda(last.ix.intro_pda, U64Dec(accounts[last.ix.counter_pda].data.counter))
    /\ IsReplyRecord(accounts, last.ix.reply_pda)
    /\ accounts[last.ix.reply_pda].data.replier # last.ix.actor
    /\ RewardReady(accounts, last.ix.actor)

(* C14: initialize-reward-mint succeeds at most once: it succeeds only    *)
(* while the mint singleton does not exist, and once the mint is set up    *)
(* every initialize-reward-mint fails and leaves the mint, its authority,  *)
(* every balance and every other account unchanged; no other step removes  *)
(* or re-initialises the mint.                                             *)
C14_MintSetUpOnce ==
    [][/\ last'.ix.op = "InitializeMint" =>
             IF MintReady(accounts)
             THEN last'.err \notin {"Ok", "None"} /\ accounts' = accounts
             ELSE last'.err = "Ok" =>
                      (/\ MintPda \notin DOMAIN accounts
                       /\ MintReady(accounts')
                       /\ accounts'[MintPda].data.mint_authority = MintAuthPda
                       /\ accounts'[MintPda].data.supply = 0)
       /\ MintReady(accounts) =>
             /\ MintReady(accounts')
             /\ accounts'[MintPda].data.mint_authority = accounts[MintPda].data.mint_authority
             /\ accounts'[MintPda].data.decimals = accounts[MintPda].data.decimals
             /\ accounts'[MintPda].data.supply >= accounts[MintPda].data.supply]_vars

C14_Witness ==
    /\ last.ix.op = "InitializeMint"
    /\ last.ix = InitializeMintIx(last.ix.actor)
    /\ last.err = "AccountAlreadyInUse"
    /\ MintReady(accounts)
    /\ accounts[MintPda].data.supply = 15
    /\ \E w \in Identities : Balance(accounts, w) = 15

(* C15: the name of an update-introduction payload is ignored: in every   *)
(* reachable state, two updates by the same actor with the same slot and   *)
(* the same message but different payload names end with the same result   *)
(* (both Ok or the same error) and leave the same accounts.                *)
C15_UpdateNameIgnored ==
    \A w \in Identities, ip \in IntroSlots, m \in Messages, n1 \in Names, n2 \in Names :
        LET r1 == process_instruction(accounts, UpdateIntroIx(w, ip, n1, m))
            r2 == process_instruction(accounts, UpdateIntroIx(w, ip, n2, m))
        IN  /\ r1.err = r2.err
            /\ Committed(accounts, r1) = Committed(accounts, r2)

(* C16: every record-slot reference a handler reads or writes is compared *)
(* with its re-derived address before any mutation: a create-introduction  *)
(* whose introduction or counter slot, an update-introduction whose        *)
(* introduction slot, or a reply whose counter or reply slot is not the    *)
(* derived address is rejected with InvalidPDA or IncorrectAccountError    *)
(* and changes no state; in particular a reply whose counter slot is not   *)
(* derive(introduction slot, "counter").                                   *)
C16_SlotsRederived ==
    [][(\/ /\ last'.ix.op = "StudentIntro"
           /\ last'.ix.payload_ok
           /\ last'.ix.n_accounts >= AccountsTaken("StudentIntro")
           /\ \/ last'.ix.intro_pda # IntroPda(last'.ix.actor)
              \/ last'.ix.counter_pda # CounterPda(IntroPda(last'.ix.actor))
        \/ /\ last'.ix.op = "UpdateIntro"
           /\ last'.ix.payload_ok
           /\ last'.ix.n_accounts >= AccountsTaken("UpdateIntro")
           /\ last'.ix.intro_pda # IntroPda(last'.ix.actor)
        \/ /\ last'.ix.op = "ReplyIntro"
           /\ last'.ix.payload_ok
           /\ last'.ix.n_accounts >= AccountsTaken("ReplyIntro")
           /\ \/ last'.ix.counter_pda # CounterPda(last'.ix.intro_pda)
              \/ ~IsReplyCounter(accounts, CounterPda(last'.ix.intro_pda))
              \/ last'.ix.reply_pda #
                    ReplyPda(last'.ix.intro_pda,
                             accounts[CounterPda(last'.ix.intro_pda)].data.counter))
       => /\ last'.err \in {"InvalidPDA", "IncorrectAccountError"}
          /\ accounts' = accounts]_vars

(* C17: in create-introduction, reply and initialize-reward-mint, a       *)
(* reward-mint, mint-authority, token-program or system-program reference  *)
(* that differs from its derived or well-known address makes the handler   *)
(* return IncorrectAccountError and change no state.                       *)
C17_SingletonsChecked ==
    [][(/\ last'.ix.op \in {"StudentIntro", "ReplyIntro", "InitializeMint"}
        /\ last'.ix.payload_ok
        /\ last'.ix.n_accounts >= AccountsTaken(last'.ix.op)
        /\ \/ last'.ix.token_mint # MintPda
           \/ last'.ix.mint_auth # MintAuthPda
           \/ last'.ix.token_program # TOKEN_PROGRAM_ID
           \/ last'.ix.system_program # SYSTEM_PROGRAM_ID)
       => /\ last'.err = "IncorrectAccountError"
          /\ accounts' = accounts]_vars

Signed(ix) == [ix EXCEPT !.is_signer = TRUE]

(* C18: create-introduction, update-introduction and reply require the    *)
(* signature of the acting identity: an operation that would succeed with  *)
(* the signature is, without it, rejected with MissingRequiredSignature    *)
(* and changes no record, counter or balance.                              *)
C18_SignatureRequired ==
    [][(/\ last'.ix.op \in {"StudentIntro", "UpdateIntro", "ReplyIntro"}
        /\ ~last'.ix.is_signer
        /\ process_instruction(accounts, Signed(last'.ix)).err = "Ok")
       => /\ last'.err = "MissingRequiredSignature"
          /\ accounts' = accounts
          /\ replyLog' = replyLog]_vars

(* C19: in every reachable state the parent reference of every            *)
(* ReplyRecord is the address of an Active WriterRecord (initialized and   *)
(* owned by this program): a reply naming an introduction slot that was    *)
(* never created, or that is not a WriterRecord, never succeeds.           *)
C19_ReplyParentIsWriterRecord ==
    \A k \in DOMAIN accounts :
        IsReplyRecord(accounts, k) => IsWriterRecord(accounts, accounts[k].data.intro)

(* C20: every successful create-introduction and every successful reply  *)
(* happens in a state where the reward mint has been set up by a           *)
(* successful initialize-reward-mint, and the mint comes into existence    *)
(* only by that operation; hence while the mint is not set up no           *)
(* WriterRecord, ReplyCounter or ReplyRecord exists.                       *)
C20_MintBeforeRecords ==
    [][/\ (last'.ix.op \in {"StudentIntro", "ReplyIntro"} /\ last'.err = "Ok")
             => MintReady(accounts)
       /\ (MintReady(accounts') /\ ~MintReady(accounts))
             => (last'.ix.op = "InitializeMint" /\ last'.err = "Ok")
       /\ ~MintReady(accounts')
             => \A k \in DOMAIN accounts' : accounts'[k].owner # program_id]_vars

C20_Witness ==
    /\ last.ix.op = "StudentIntro"
    /\ WellFormedCreate(last.ix)
    /\ ~MintReady(accounts)
    /\ last.err = "TokenInvalidAccountData"
    /\ IsWriterRecord(student_intro(accounts, last.ix).accounts, IntroPda(last.ix.actor))
    /\ \A k \in DOMAIN accounts : accounts[k].owner # program_id

====
